---- MODULE Spec2Model ----
(***************************************************************************)
(* Model of the batch analysis script (analyzeAll): a list of component    *)
(* paths is processed one at a time; each existing file is read, sent to   *)
(* the generative service, the completion is de-fenced and parsed, and the *)
(* result (or the empty fallback) is stored in masterAnalysis, which is    *)
(* written to ./analysis.json after the loop.                              *)
(*                                                                         *)
(* Identifiers are ordinary path strings (ordinary property names of the   *)
(* masterAnalysis object; a path spelled __proto__ or a canonical array    *)
(* index is outside the modelled inputs).  A completion is a sequence of   *)
(* tokens: the fence marker, a language tag, a newline, or a JSON body.    *)
(* masterAnalysis is the sequence of its own properties in insertion       *)
(* order.  log, status and inflight are history variables recording what   *)
(* the run has done; artifact is the sequence of documents written to the  *)
(* output path; exitCode is -1 while the process has not ended.            *)
(* pkgKind and readmeKind say what package.json and README.md resolve to;  *)
(* projectContext is the list of parts of the context string; received and *)
(* promptCtx record, per position, the response delivered for it and the   *)
(* context its prompt carried; reported says the completion line was       *)
(* printed.                                                                *)
(***************************************************************************)
EXTENDS Integers, Sequences, FiniteSets, TLC

VARIABLES FILES, fsKind, pc, idx, text, masterAnalysis, status, inflight,
          log, exitCode, artifact,
          pkgKind, readmeKind, projectContext, received, promptCtx, reported

vars == <<FILES, fsKind, pc, idx, text, masterAnalysis, status, inflight,
          log, exitCode, artifact,
          pkgKind, readmeKind, projectContext, received, promptCtx, reported>>

\* ---------------------------------------------------------------- bounds
MaxFiles == 3

\* list length in the runs checked for termination
MaxLiveFiles == 2

\* list length up to which the project documents vary; longer lists run
\* with both documents present
MaxCtxFiles == 2

\* length of the completions given to the normalizer on its own
MaxTextLen == 4

Ids == {"A.tsx", "B.jsx"}

\* what a path resolves to: nothing, a regular file, or something that
\* exists but cannot be read as text (a directory)
FsKinds == {"missing", "file", "dir"}

\* ------------------------------------------------------------ completions
\* the three-backquote code fence marker
FENCE == "<fence>"

NL == "\n"

Completions ==
  { <<"{A}">>,
    <<FENCE, "json", NL, "{B}", NL, FENCE>>,
    <<NL, FENCE, NL, "{A}", NL, FENCE, NL>>,
    <<FENCE, "js", NL, "{A}", NL, FENCE>>,
    <<"null">>,
    <<"{}">>,
    <<>> }

\* generateContent rejects, or response.text() throws
ERR == <<"<error>">>

Responses == Completions \cup {ERR}

\* ------------------------------------------------------- pure functions
\* variant of StripJsonFence: the json-tagged marker is not removed
StripJsonFenceOmitted(s) == s

\* text.replace(/<fence>json/g, "")
RECURSIVE StripJsonFence(_)
StripJsonFence(s) ==
  IF Len(s) = 0 THEN <<>>
  ELSE IF Len(s) >= 2 /\ s[1] = FENCE /\ s[2] = "json"
       THEN StripJsonFence(SubSeq(s, 3, Len(s)))
       ELSE <<s[1]>> \o StripJsonFence(Tail(s))

\* .replace(/<fence>/g, "")
RECURSIVE StripFence(_)
StripFence(s) ==
  IF Len(s) = 0 THEN <<>>
  ELSE IF s[1] = FENCE THEN StripFence(Tail(s))
       ELSE <<s[1]>> \o StripFence(Tail(s))

\* String.prototype.trim
RECURSIVE TrimLeft(_)
TrimLeft(s) ==
  IF Len(s) > 0 /\ s[1] = NL THEN TrimLeft(Tail(s)) ELSE s

RECURSIVE TrimRight(_)
TrimRight(s) ==
  IF Len(s) > 0 /\ s[Len(s)] = NL THEN TrimRight(SubSeq(s, 1, Len(s) - 1)) ELSE s

Trim(s) == TrimRight(TrimLeft(s))

Normalize(raw) == Trim(StripFence(StripJsonFence(raw)))

\* JSON.parse succeeds on exactly one JSON value
JsonParses(t) == Len(t) = 1 /\ t[1] \in {"{A}", "{B}", "null", "{}"}

\* JSON.parse: the value a well-formed text denotes
JsonParse(t) ==
  CASE t[1] = "{A}"  -> [t |-> "object", props |-> "{title:X}", wrappers |-> "{router:true}"]
    [] t[1] = "{B}"  -> [t |-> "object", props |-> "{label:Y}", wrappers |-> "{redux:false}"]
    [] t[1] = "null" -> [t |-> "null",   props |-> "absent",    wrappers |-> "absent"]
    [] t[1] = "{}"   -> [t |-> "object", props |-> "absent",    wrappers |-> "absent"]

\* variant of Fallback: an empty object
FallbackEmptyObject == [t |-> "object", props |-> "absent", wrappers |-> "absent"]

\* { props: {}, wrappers: {} }
Fallback == [t |-> "object", props |-> "{}", wrappers |-> "{}"]

\* ------------------------------------------ masterAnalysis as a JS object
Keys(obj) == {obj[k].key : k \in 1..Len(obj)}

Has(obj, key) == key \in Keys(obj)

Get(obj, key) == obj[CHOOSE k \in 1..Len(obj) : obj[k].key = key].val

\* variant of Put: every assignment adds a new entry (a list of results
\* instead of a keyed object)
PutAppend(obj, key, val) == Append(obj, [key |-> key, val |-> val])

\* variant of Put: the accumulator is replaced by a fresh object holding
\* only the new entry
PutFresh(obj, key, val) == <<[key |-> key, val |-> val]>>

\* variant of Put: a new property is placed before the existing ones
PutFront(obj, key, val) ==
  IF Has(obj, key)
  THEN [k \in 1..Len(obj) |->
          IF obj[k].key = key THEN [key |-> key, val |-> val] ELSE obj[k]]
  ELSE <<[key |-> key, val |-> val]>> \o obj

\* obj[key] = val : replaces the value of an own property in place, or
\* adds the property after the existing ones
Put(obj, key, val) ==
  IF Has(obj, key)
  THEN [k \in 1..Len(obj) |->
          IF obj[k].key = key THEN [key |-> key, val |-> val] ELSE obj[k]]
  ELSE Append(obj, [key |-> key, val |-> val])

\* ------------------------------------------------------------- the loop
\* variant of IterOrder: the list is walked from its end
IterOrderReversed == [k \in 1..Len(FILES) |-> Len(FILES) + 1 - k]

\* for (const filePath of FILES): the k-th iteration visits position k
IterOrder == [k \in 1..Len(FILES) |-> k]

Pos == IterOrder[idx]

filePath == FILES[Pos]

Ev(kind, p) == [ev |-> kind, pos |-> p]

Terminal == {"SkippedMissing", "Succeeded", "FailedFallback"}

Active == {"Reading", "Composing", "Invoking", "Normalizing"}

\* what package.json / README.md resolve to: nothing, a readable well-formed
\* document, or something whose read or parse throws
DocKinds == {"missing", "ok", "bad"}

\* let projectContext = "Unknown React Application"
Placeholder == <<"Unknown React Application">>

\* Project Name / Description, then Key Libraries
PkgContext == <<"Project Name, Description", "Key Libraries">>

\* README Summary: the first 3000 characters
ReadmePart == <<"README Summary">>

\* no response delivered (yet) for a position
NoResponse == <<"<none>">>

SeqsUpTo(S, n) == UNION {[1..m -> S] : m \in 0..n}

Init ==
  /\ FILES \in SeqsUpTo(Ids, MaxFiles)
  /\ fsKind \in [Ids -> FsKinds]
  /\ \A id \in Ids : id \notin {FILES[k] : k \in 1..Len(FILES)} => fsKind[id] = "file"
  /\ pc = "main"
  /\ idx = 1
  /\ text = <<>>
  /\ masterAnalysis = <<>>
  /\ status = [k \in 1..Len(FILES) |-> "Pending"]
  /\ inflight = {}
  /\ log = <<>>
  /\ exitCode = -1
  /\ artifact = <<>>
  /\ pkgKind \in DocKinds
  /\ readmeKind \in DocKinds
  /\ Len(FILES) > MaxCtxFiles => (pkgKind = "ok" /\ readmeKind = "ok")
  /\ projectContext = Placeholder
  /\ received = [k \in 1..Len(FILES) |-> NoResponse]
  /\ promptCtx = [k \in 1..Len(FILES) |-> <<>>]
  /\ reported = FALSE

\* variant of Start without the empty-list check
StartNoCheck ==
  /\ pc = "main"
  /\ pc' = "context"
  /\ UNCHANGED <<FILES, fsKind, pkgKind, readmeKind, idx, text, masterAnalysis, status, inflight, log, exitCode, artifact, projectContext, received, promptCtx, reported>>

\* module top level: the empty-list check, then analyzeAll() is called
Start ==
  /\ pc = "main"
  /\ IF Len(FILES) = 0
     THEN /\ pc' = "exited"
          /\ exitCode' = 1
          /\ log' = Append(log, Ev("exit", 0))
     ELSE /\ pc' = "context"
          /\ UNCHANGED <<exitCode, log>>
  /\ UNCHANGED <<FILES, fsKind, pkgKind, readmeKind, idx, text, masterAnalysis, status, inflight, artifact, projectContext, received, promptCtx, reported>>

\* variant of BuildContext without the try/catch: a throw ends the process
BuildContextNoCatch ==
  /\ pc = "context"
  /\ log' = Append(log, Ev("context", 0))
  /\ IF pkgKind = "bad" \/ readmeKind = "bad"
     THEN /\ pc' = "crashed"
          /\ exitCode' = 1
          /\ UNCHANGED projectContext
     ELSE /\ projectContext' =
               (IF pkgKind = "ok" THEN PkgContext ELSE projectContext)
               \o (IF readmeKind = "ok" THEN ReadmePart ELSE <<>>)
          /\ pc' = "loop"
          /\ UNCHANGED exitCode
  /\ UNCHANGED <<FILES, fsKind, pkgKind, readmeKind, idx, text, masterAnalysis, status,
                 inflight, artifact, received, promptCtx, reported>>

\* the try block that gathers the global context, then analyzeAll() is
\* called: a throw from package.json skips README.md; a throw from
\* README.md keeps what package.json gave
BuildContext ==
  /\ pc = "context"
  /\ projectContext' =
       IF pkgKind = "bad" THEN projectContext
       ELSE (IF pkgKind = "ok" THEN PkgContext ELSE projectContext)
            \o (IF readmeKind = "ok" THEN ReadmePart ELSE <<>>)
  /\ log' = Append(log, Ev("context", 0))
  /\ pc' = "loop"
  /\ UNCHANGED <<FILES, fsKind, pkgKind, readmeKind, idx, text, masterAnalysis, status,
                 inflight, exitCode, artifact, received, promptCtx, reported>>

\* variant of LoopHead without the existsSync check
LoopHeadNoCheck ==
  /\ pc = "loop"
  /\ IF idx > Len(FILES)
     THEN /\ pc' = "sink"
          /\ UNCHANGED <<idx, status, log>>
     ELSE /\ status' = [status EXCEPT ![Pos] = "Reading"]
          /\ log' = Append(log, Ev("read", Pos))
          /\ pc' = "read"
          /\ UNCHANGED idx
  /\ UNCHANGED <<FILES, fsKind, pkgKind, readmeKind, text, masterAnalysis, inflight, exitCode, artifact, projectContext, received, promptCtx, reported>>

\* variant of LoopHead that leaves the loop one position early
LoopHeadEarlyExit ==
  /\ pc = "loop"
  /\ IF idx >= Len(FILES)
     THEN /\ pc' = "sink"
          /\ UNCHANGED <<idx, status, log>>
     ELSE IF fsKind[filePath] = "missing"
          THEN /\ status' = [status EXCEPT ![Pos] = "SkippedMissing"]
               /\ log' = Append(log, Ev("skip", Pos))
               /\ idx' = idx + 1
               /\ pc' = "loop"
          ELSE /\ status' = [status EXCEPT ![Pos] = "Reading"]
               /\ log' = Append(log, Ev("read", Pos))
               /\ pc' = "read"
               /\ UNCHANGED idx
  /\ UNCHANGED <<FILES, fsKind, pkgKind, readmeKind, text, masterAnalysis, inflight, exitCode, artifact, projectContext, received, promptCtx, reported>>

\* loop head: the next filePath, and the existsSync check
LoopHead ==
  /\ pc = "loop"
  /\ IF idx > Len(FILES)
     THEN /\ pc' = "sink"
          /\ UNCHANGED <<idx, status, log>>
     ELSE IF fsKind[filePath] = "missing"
          THEN /\ status' = [status EXCEPT ![Pos] = "SkippedMissing"]
               /\ log' = Append(log, Ev("skip", Pos))
               /\ idx' = idx + 1
               /\ pc' = "loop"
          ELSE /\ status' = [status EXCEPT ![Pos] = "Reading"]
               /\ log' = Append(log, Ev("read", Pos))
               /\ pc' = "read"
               /\ UNCHANGED idx
  /\ UNCHANGED <<FILES, fsKind, pkgKind, readmeKind, text, masterAnalysis, inflight, exitCode, artifact, projectContext, received, promptCtx, reported>>

\* variant of Catch that rethrows: no entry, the run ends
CatchRethrow ==
  /\ status' = [status EXCEPT ![Pos] = "FailedFallback"]
  /\ pc' = "crashed"
  /\ UNCHANGED <<masterAnalysis, log, idx>>

\* catch (err): the fallback entry, then the next iteration
Catch ==
  /\ masterAnalysis' = Put(masterAnalysis, filePath, Fallback)
  /\ status' = [status EXCEPT ![Pos] = "FailedFallback"]
  /\ log' = Append(log, Ev("write", Pos))
  /\ idx' = idx + 1
  /\ pc' = "loop"

\* variant of ReadFile that goes on to the call when the read throws
ReadFileIgnoreError ==
  /\ pc = "read"
  /\ status' = [status EXCEPT ![Pos] = "Composing"]
  /\ pc' = "invoke"
  /\ UNCHANGED <<idx, masterAnalysis, log>>
  /\ UNCHANGED <<FILES, fsKind, pkgKind, readmeKind, text, inflight, exitCode, artifact, projectContext, received, promptCtx, reported>>

\* variant of ReadFile that treats a failed read like a missing file
ReadFileSkipOnError ==
  /\ pc = "read"
  /\ IF fsKind[filePath] = "file"
     THEN /\ status' = [status EXCEPT ![Pos] = "Composing"]
          /\ pc' = "invoke"
          /\ UNCHANGED <<idx, masterAnalysis, log>>
     ELSE /\ status' = [status EXCEPT ![Pos] = "SkippedMissing"]
          /\ idx' = idx + 1
          /\ pc' = "loop"
          /\ UNCHANGED <<masterAnalysis, log>>
  /\ UNCHANGED <<FILES, fsKind, pkgKind, readmeKind, text, inflight, exitCode, artifact, projectContext, received, promptCtx, reported>>

\* readFileSync and the prompt template
ReadFile ==
  /\ pc = "read"
  /\ IF fsKind[filePath] = "file"
     THEN /\ status' = [status EXCEPT ![Pos] = "Composing"]
          /\ pc' = "invoke"
          /\ UNCHANGED <<idx, masterAnalysis, log>>
     ELSE Catch
  /\ UNCHANGED <<FILES, fsKind, pkgKind, readmeKind, text, inflight, exitCode, artifact, projectContext, received, promptCtx, reported>>

\* variant of Invoke that does not await the call: the loop goes on while
\* the call is in flight
InvokeNoAwait ==
  /\ pc = "invoke"
  /\ inflight' = inflight \cup {Pos}
  /\ status' = [status EXCEPT ![Pos] = "Invoking"]
  /\ log' = Append(log, Ev("call", Pos))
  /\ promptCtx' = [promptCtx EXCEPT ![Pos] = projectContext]
  /\ pc' = "loop"
  /\ idx' = idx + 1
  /\ UNCHANGED <<FILES, fsKind, pkgKind, readmeKind, text, masterAnalysis, exitCode, artifact, projectContext, received, reported>>

\* model.generateContent(prompt) is issued and awaited
Invoke ==
  /\ pc = "invoke"
  /\ inflight' = inflight \cup {Pos}
  /\ status' = [status EXCEPT ![Pos] = "Invoking"]
  /\ log' = Append(log, Ev("call", Pos))
  /\ promptCtx' = [promptCtx EXCEPT ![Pos] = projectContext]
  /\ pc' = "await"
  /\ UNCHANGED <<FILES, fsKind, pkgKind, readmeKind, idx, text, masterAnalysis, exitCode, artifact, projectContext, received, reported>>

\* the awaited call settles: a completion text, or an error
Respond ==
  /\ pc = "await"
  /\ \E r \in Responses :
       /\ inflight' = inflight \ {Pos}
       /\ received' = [received EXCEPT ![Pos] = r]
       /\ IF r = ERR
          THEN /\ Catch
               /\ UNCHANGED text
          ELSE /\ text' = r
               /\ status' = [status EXCEPT ![Pos] = "Normalizing"]
               /\ pc' = "normalize"
               /\ UNCHANGED <<idx, masterAnalysis, log>>
  /\ UNCHANGED <<FILES, fsKind, pkgKind, readmeKind, exitCode, artifact, projectContext, promptCtx, reported>>

\* variant of NormalizeAndStore whose wait does not depend on FILES.length
NormalizeAndStoreAlwaysSleep ==
  /\ pc = "normalize"
  /\ IF JsonParses(Normalize(text))
     THEN /\ masterAnalysis' = Put(masterAnalysis, filePath, JsonParse(Normalize(text)))
          /\ status' = [status EXCEPT ![Pos] = "Succeeded"]
          /\ log' = log \o <<Ev("write", Pos), Ev("sleep", Pos)>>
          /\ pc' = "sleep"
          /\ UNCHANGED idx
     ELSE Catch
  /\ text' = <<>>
  /\ UNCHANGED <<FILES, fsKind, pkgKind, readmeKind, inflight, exitCode, artifact, projectContext, received, promptCtx, reported>>

\* variant of NormalizeAndStore that waits only when a position is left
NormalizeAndStoreNoTrailingSleep ==
  /\ pc = "normalize"
  /\ IF JsonParses(Normalize(text))
     THEN /\ masterAnalysis' = Put(masterAnalysis, filePath, JsonParse(Normalize(text)))
          /\ status' = [status EXCEPT ![Pos] = "Succeeded"]
          /\ IF idx < Len(FILES)
             THEN /\ log' = log \o <<Ev("write", Pos), Ev("sleep", Pos)>>
                  /\ pc' = "sleep"
                  /\ UNCHANGED idx
             ELSE /\ log' = Append(log, Ev("write", Pos))
                  /\ idx' = idx + 1
                  /\ pc' = "loop"
     ELSE Catch
  /\ text' = <<>>
  /\ UNCHANGED <<FILES, fsKind, pkgKind, readmeKind, inflight, exitCode, artifact, projectContext, received, promptCtx, reported>>

\* strip the fences, trim, JSON.parse, store; then the rate-limit wait
NormalizeAndStore ==
  /\ pc = "normalize"
  /\ IF JsonParses(Normalize(text))
     THEN /\ masterAnalysis' = Put(masterAnalysis, filePath, JsonParse(Normalize(text)))
          /\ status' = [status EXCEPT ![Pos] = "Succeeded"]
          /\ IF Len(FILES) > 1
             THEN /\ log' = log \o <<Ev("write", Pos), Ev("sleep", Pos)>>
                  /\ pc' = "sleep"
                  /\ UNCHANGED idx
             ELSE /\ log' = Append(log, Ev("write", Pos))
                  /\ idx' = idx + 1
                  /\ pc' = "loop"
     ELSE Catch
  /\ text' = <<>>
  /\ UNCHANGED <<FILES, fsKind, pkgKind, readmeKind, inflight, exitCode, artifact, projectContext, received, promptCtx, reported>>

\* await sleep(4000) resolves
SleepDone ==
  /\ pc = "sleep"
  /\ idx' = idx + 1
  /\ pc' = "loop"
  /\ UNCHANGED <<FILES, fsKind, pkgKind, readmeKind, text, masterAnalysis, status, inflight, log, exitCode, artifact, projectContext, received, promptCtx, reported>>

\* variant of Sink that swallows a failed write and reports completion
SinkSwallow ==
  /\ pc = "sink"
  /\ log' = Append(log, Ev("sink", 0))
  /\ \E ok \in BOOLEAN :
       /\ artifact' = IF ok THEN Append(artifact, masterAnalysis) ELSE artifact
       /\ pc' = "done"
       /\ exitCode' = 0
       /\ reported' = TRUE
  /\ UNCHANGED <<FILES, fsKind, pkgKind, readmeKind, idx, text, masterAnalysis, status, inflight, projectContext, received, promptCtx>>

\* fs.writeFileSync(OUTPUT_PATH, ...): succeeds, or throws out of analyzeAll
Sink ==
  /\ pc = "sink"
  /\ log' = Append(log, Ev("sink", 0))
  /\ \E ok \in BOOLEAN :
       IF ok
       THEN /\ artifact' = Append(artifact, masterAnalysis)
            /\ pc' = "done"
            /\ exitCode' = 0
            /\ reported' = TRUE
       ELSE /\ pc' = "crashed"
            /\ exitCode' = 1
            /\ UNCHANGED <<artifact, reported>>
  /\ UNCHANGED <<FILES, fsKind, pkgKind, readmeKind, idx, text, masterAnalysis, status, inflight, projectContext, received, promptCtx>>

Next ==
  \/ Start
  \/ BuildContext
  \/ LoopHead
  \/ ReadFile
  \/ Invoke
  \/ Respond
  \/ NormalizeAndStore
  \/ SleepDone
  \/ Sink

Spec == Init /\ [][Next]_vars

\* the tokens a completion is made of
Tokens == {FENCE, "json", "js", NL, "{A}", "oops"}

\* a run that is about to normalize the completion of its first target,
\* the completion being any text of at most MaxTextLen tokens
NormInit ==
  /\ FILES \in {<<"A.tsx">>, <<"A.tsx", "B.jsx">>}
  /\ fsKind = [id \in Ids |-> "file"]
  /\ pc = "normalize"
  /\ idx = 1
  /\ text \in SeqsUpTo(Tokens, MaxTextLen)
  /\ masterAnalysis = <<>>
  /\ status = [k \in 1..Len(FILES) |-> IF k = 1 THEN "Normalizing" ELSE "Pending"]
  /\ inflight = {}
  /\ log = <<Ev("context", 0), Ev("read", 1), Ev("call", 1)>>
  /\ exitCode = -1
  /\ artifact = <<>>
  /\ pkgKind = "missing"
  /\ readmeKind = "missing"
  /\ projectContext = Placeholder
  /\ received = [k \in 1..Len(FILES) |-> IF k = 1 THEN text ELSE NoResponse]
  /\ promptCtx = [k \in 1..Len(FILES) |-> IF k = 1 THEN Placeholder ELSE <<>>]
  /\ reported = FALSE

NormNext == NormalizeAndStore

NormSpec == NormInit /\ [][NormNext]_vars

\* runs of at most MaxLiveFiles targets with both project documents present
LiveInit ==
  /\ Init
  /\ Len(FILES) <= MaxLiveFiles
  /\ pkgKind = "ok"
  /\ readmeKind = "ok"

\* the event loop runs every continuation that is ready: a settled call, an
\* elapsed timer, the next synchronous stretch
LiveSpec == LiveInit /\ [][Next]_vars /\ WF_vars(Next)

\* ------------------------------------------------- history-variable views
Positions == 1..Len(FILES)

Count(kind) == Cardinality({k \in 1..Len(log) : log[k].ev = kind})

LoopOver == pc \in {"sink", "done", "crashed"}

\* positions the run did not skip as missing
NonSkipped == {i \in Positions : status[i] # "SkippedMissing"}

\* an external failure of the current target: the awaited call does not
\* deliver a text, or the delivered text does not parse
CallFails == pc = "await" /\ pc' # "normalize"

ParseFails == pc = "normalize" /\ ~JsonParses(Normalize(text))

\* ------------------------------------------------------------------- C1
\* C1 (as stated): when the Result Sink is invoked, the number of entries
\* of BatchOutput equals the number of input-list items not skipped as
\* missing, also for lists that repeat an identifier.
C1_AsStated ==
  pc = "sink" => Len(masterAnalysis) = Cardinality(NonSkipped)

\* C1 (amended): when the Result Sink is invoked, BatchOutput has exactly
\* one entry per distinct identifier among the items not skipped as
\* missing, and that entry is the fallback if the last non-skipped
\* occurrence of the identifier fell back and a parsed result otherwise.
C1_EntriesPerIdentifier ==
  pc = "sink" =>
    /\ Keys(masterAnalysis) = {FILES[i] : i \in NonSkipped}
    /\ Len(masterAnalysis) = Cardinality({FILES[i] : i \in NonSkipped})
    /\ \A i \in NonSkipped :
         (\A j \in NonSkipped : FILES[j] = FILES[i] => j <= i) =>
           IF status[i] = "FailedFallback"
           THEN Get(masterAnalysis, FILES[i]) = Fallback
           ELSE /\ status[i] = "Succeeded"
                /\ \E c \in Completions :
                     /\ JsonParses(Normalize(c))
                     /\ Get(masterAnalysis, FILES[i]) = JsonParse(Normalize(c))

C1_Witness ==
  /\ pc = "sink"
  /\ \E i, j \in NonSkipped : i < j /\ FILES[i] = FILES[j]
  /\ \E i \in Positions : status[i] = "SkippedMissing"
  /\ Len(masterAnalysis) = 1

\* ------------------------------------------------------------------- C2
\* C2: when the external call of a target fails or its completion does not
\* parse, the entry written for that target is exactly the fallback, the
\* entries of all other identifiers are left as they are, the loop goes on
\* with the next position, a target whose completion parses gets the value
\* parsed from its own completion, and every position has been processed
\* when the loop is over.
C2_FailureIsolated ==
  /\ [][ /\ (CallFails \/ ParseFails) =>
              /\ Has(masterAnalysis', filePath)
              /\ Get(masterAnalysis', filePath) = Fallback
              /\ \A k \in Keys(masterAnalysis) \ {filePath} :
                    Has(masterAnalysis', k)
                    /\ Get(masterAnalysis', k) = Get(masterAnalysis, k)
              /\ status' = [status EXCEPT ![Pos] = "FailedFallback"]
              /\ pc' = "loop"
              /\ idx' = idx + 1
         /\ (pc = "normalize" /\ ~ParseFails) =>
              /\ Has(masterAnalysis', filePath)
              /\ Get(masterAnalysis', filePath) = JsonParse(Normalize(text))
       ]_vars
  /\ [](LoopOver => \A i \in Positions : status[i] \in Terminal)

C2_Witness ==
  /\ pc = "sink"
  /\ \E i, j, k \in Positions :
       /\ i < j /\ j < k
       /\ FILES[i] # FILES[j]
       /\ status[i] = "Succeeded"
       /\ status[j] = "FailedFallback" /\ fsKind[FILES[j]] = "file"
       /\ status[k] = "Succeeded"
       /\ Get(masterAnalysis, FILES[j]) = Fallback
       /\ Get(masterAnalysis, FILES[i]) # Fallback

\* ------------------------------------------------------------------- C3
\* C3: an identifier that does not resolve to existing content never has
\* an entry in BatchOutput or in the written artifact, no read, external
\* call, entry write or throttle delay is logged for its position, the
\* loop moves past it, and every later position is processed.
C3_MissingSkipped ==
  \A i \in Positions :
    fsKind[FILES[i]] = "missing" =>
      /\ ~Has(masterAnalysis, FILES[i])
      /\ \A d \in 1..Len(artifact) : ~Has(artifact[d], FILES[i])
      /\ \A k \in 1..Len(log) :
           log[k].pos = i => log[k].ev = "skip"
      /\ i \notin inflight
      /\ status[i] \in {"Pending", "SkippedMissing"}
      /\ status[i] = "SkippedMissing" => idx > i
      /\ LoopOver => \A j \in Positions : j > i => status[j] \in Terminal

C3_Witness ==
  /\ pc = "done"
  /\ \E i, j \in Positions :
       /\ i < j
       /\ status[i] = "SkippedMissing"
       /\ status[j] = "Succeeded"
       /\ Len(artifact) = 1
       /\ Has(artifact[1], FILES[j])
       /\ ~Has(artifact[1], FILES[i])

\* ------------------------------------------------------------------- C4
\* C4 (as stated): over a whole run the Throttle is invoked exactly N-1
\* times when the batch has N > 1 non-skipped targets, and zero times when
\* N <= 1.
C4_ThrottleCount ==
  LoopOver =>
    Count("sleep") = IF Cardinality(NonSkipped) > 1
                     THEN Cardinality(NonSkipped) - 1
                     ELSE 0

\* ------------------------------------------------------------------- C5
\* C5 (as stated): in a run of more than one target, after every
\* non-skipped target (its entry write) the Throttle is invoked before the
\* next target starts Reading, and between two consecutive external calls
\* there is a throttle delay.
C5_ThrottleBetween ==
  Len(FILES) > 1 =>
    \A p, q \in 1..Len(log) :
      (/\ p < q
       /\ log[p].ev \in {"write", "call"}
       /\ log[q].ev = IF log[p].ev = "write" THEN "read" ELSE "call") =>
        \E r \in (p + 1)..(q - 1) : log[r].ev = "sleep"

\* ------------------------------------------------------------------- C6
\* C6 (as stated): once an entry has been written into BatchOutput no
\* later step changes or replaces it, also when an identifier appears at
\* more than one position.
C6_AsStated ==
  [][\A k \in Keys(masterAnalysis) :
       Has(masterAnalysis', k) /\ Get(masterAnalysis', k) = Get(masterAnalysis, k)]_vars

\* C6 (amended): an entry of BatchOutput is never removed or moved, and the
\* only step that changes its value is the entry write of a later position
\* carrying the same identifier; with pairwise distinct identifiers no
\* entry ever changes.
C6_OnlySameIdentifierReplaces ==
  [][/\ Len(masterAnalysis') >= Len(masterAnalysis)
     /\ \A n \in 1..Len(masterAnalysis) :
          /\ masterAnalysis'[n].key = masterAnalysis[n].key
          /\ masterAnalysis'[n].val # masterAnalysis[n].val =>
               /\ masterAnalysis[n].key = filePath
               /\ status'[Pos] \in {"Succeeded", "FailedFallback"}
               /\ status[Pos] \notin Terminal
               /\ \E i \in Positions :
                    i < Pos /\ FILES[i] = filePath /\ status[i] \in {"Succeeded", "FailedFallback"}]_vars

C6_Witness ==
  /\ pc = "sink"
  /\ Len(masterAnalysis) = 2
  /\ \E i, j \in Positions :
       /\ i < j
       /\ FILES[i] = FILES[j]
       /\ status[i] = "Succeeded"
       /\ status[j] = "FailedFallback"
       /\ Get(masterAnalysis, FILES[i]) = Fallback

\* ------------------------------------------------------------------- C7
\* C7: for a non-empty input list the Result Sink is invoked at most once,
\* only when every position is SkippedMissing, Succeeded or FailedFallback
\* and no call is in flight, it is the last thing the run does, and a run
\* that has ended has invoked it exactly once.
C7_SinkOnceAtEnd ==
  Len(FILES) > 0 =>
    /\ pc # "exited"
    /\ Count("sink") <= 1
    /\ pc = "sink" =>
         /\ \A i \in Positions : status[i] \in Terminal
         /\ inflight = {}
    /\ Count("sink") = 1 =>
         /\ log[Len(log)].ev = "sink"
         /\ pc \in {"done", "crashed"}
         /\ \A i \in Positions : status[i] \in Terminal
         /\ inflight = {}
    /\ pc \in {"done", "crashed"} => Count("sink") = 1
    /\ Len(artifact) <= 1
    /\ pc = "done" => artifact = <<masterAnalysis>>

C7_Witness ==
  /\ pc = "done"
  /\ Len(FILES) >= 2
  /\ \A i \in Positions : status[i] = "FailedFallback"
  /\ Count("sink") = 1

\* ------------------------------------------------------------------- C8
\* C8: with an empty input list the process ends with exit code 1 and the
\* external service, the Throttle and the Result Sink are never invoked.
C8_EmptyListExits ==
  Len(FILES) = 0 =>
    /\ pc \in {"main", "exited"}
    /\ pc = "exited" => exitCode = 1
    /\ exitCode \in {-1, 1}
    /\ \A k \in 1..Len(log) : log[k].ev \notin {"call", "sleep", "sink"}
    /\ inflight = {}
    /\ artifact = <<>>

C8_Witness ==
  /\ Len(FILES) = 0
  /\ pc = "exited"
  /\ exitCode = 1

\* ------------------------------------------------------------------- C9
\* C9: external calls and entry writes happen in input order: for positions
\* i < j every call or write of i precedes every call or write of j, and a
\* position is called at most once, before its write.
C9_InputOrder ==
  \A p, q \in 1..Len(log) :
    (log[p].ev \in {"call", "write"} /\ log[q].ev \in {"call", "write"}) =>
      /\ log[p].pos < log[q].pos => p < q
      /\ (log[p].pos = log[q].pos /\ p < q) =>
           (log[p].ev = "call" /\ log[q].ev = "write")

C9_Witness ==
  /\ pc = "sink"
  /\ \E p, q \in 1..Len(log) :
       /\ p < q
       /\ log[p] = Ev("write", 1)
       /\ log[q] = Ev("call", 3)
  /\ status[2] = "SkippedMissing"

\* ------------------------------------------------------------------ C10
\* C10: at most one target is between Reading and its terminal state, at
\* most one external call is in flight and none during a throttle delay,
\* and a position leaves Pending only when every earlier position is
\* terminal.
C10_OneAtATime ==
  /\ Cardinality({i \in Positions : status[i] \in Active}) <= 1
  /\ Cardinality(inflight) <= 1
  /\ pc = "sleep" => inflight = {}
  /\ inflight # {} => pc = "await"
  /\ \A i, j \in Positions :
       (i < j /\ status[j] # "Pending") => status[i] \in Terminal

C10_Witness ==
  /\ pc = "await"
  /\ Pos = 3
  /\ inflight = {3}
  /\ status[1] = "Succeeded"
  /\ status[2] = "FailedFallback"

\* ------------------------------------------------------------------ C11
\* a completion that is one JSON value, bare or inside a json-tagged fence
BareOrJsonFenced(c) ==
  \/ Len(c) = 1 /\ JsonParses(c)
  \/ /\ Len(c) = 6
     /\ c[1] = FENCE /\ c[2] = "json" /\ c[3] = NL /\ c[5] = NL /\ c[6] = FENCE
     /\ JsonParses(<<c[4]>>)

\* the JSON value such a completion carries
CarriedValue(c) == JsonParse(<<c[IF Len(c) = 1 THEN 1 ELSE 4]>>)

\* the identifiers of FILES in order of first occurrence
FirstOccurrences ==
  SelectSeq([k \in Positions |-> k],
            LAMBDA k : \A j \in 1..(k - 1) : FILES[j] # FILES[k])

AllResolveAndWellFormed ==
  /\ Len(FILES) > 0
  /\ \A i \in Positions : fsKind[FILES[i]] = "file"
  /\ \A i \in Positions : received[i] # ERR /\ BareOrJsonFenced(received[i])

\* C11: when every identifier of a non-empty list resolves to content and
\* every call returned a well-formed completion (bare or in json fences),
\* the written BatchOutput has one entry per input identifier, the keys in
\* input order (order of first occurrence), and the entry of an identifier
\* is the value carried by the completion returned for it (for a repeated
\* identifier, by the completion of its last occurrence).
C11_AllSucceed ==
  (pc = "done" /\ AllResolveAndWellFormed) =>
    /\ Len(artifact) = 1
    /\ [n \in 1..Len(artifact[1]) |-> artifact[1][n].key]
         = [n \in 1..Len(FirstOccurrences) |-> FILES[FirstOccurrences[n]]]
    /\ \A i \in Positions :
         /\ status[i] = "Succeeded"
         /\ (\A j \in Positions : FILES[j] = FILES[i] => j <= i) =>
              Get(artifact[1], FILES[i]) = CarriedValue(received[i])

C11_Witness ==
  /\ pc = "done"
  /\ AllResolveAndWellFormed
  /\ Len(FILES) >= 2
  /\ FILES[1] # FILES[2]
  /\ received[1] = <<FENCE, "json", NL, "{B}", NL, FENCE>>
  /\ received[2] = <<"{A}">>
  /\ Get(artifact[1], FILES[1]) # Get(artifact[1], FILES[2])

\* ------------------------------------------------------------------ C12
\* C12: for a non-empty list no per-target failure (read error, call error,
\* malformed completion) ends the run: the process ends only from the
\* Result Sink, and when every call settles the run eventually invokes the
\* Result Sink and terminates, reporting completion iff the write succeeded.
C12_ContainedAndTerminates ==
  /\ [][(Len(FILES) > 0 /\ exitCode' # -1) => (pc = "sink" /\ \A i \in Positions : status[i] \in Terminal)]_vars
  /\ [][pc' = "crashed" => pc = "sink"]_vars
  /\ [](pc = "done" => (reported /\ Len(artifact) = 1))
  /\ (Len(FILES) > 0) ~> (Count("sink") = 1 /\ pc \in {"done", "crashed"})

C12_Witness ==
  /\ pc = "done"
  /\ Len(FILES) = 2
  /\ fsKind[FILES[1]] = "dir"
  /\ received[2] \in {ERR, <<>>}
  /\ \A i \in Positions : status[i] = "FailedFallback"

\* ------------------------------------------------------------------ C13
\* C13: for a list of one target whose path exists, the Throttle is never
\* invoked, whether the analysis succeeds or falls back, and the output has
\* exactly one key, the target's identifier.
C13_SingleTarget ==
  (Len(FILES) = 1 /\ fsKind[FILES[1]] # "missing") =>
    /\ Count("sleep") = 0
    /\ pc # "sleep"
    /\ LoopOver =>
         /\ Len(masterAnalysis) = 1
         /\ masterAnalysis[1].key = FILES[1]
         /\ status[1] \in {"Succeeded", "FailedFallback"}
    /\ pc = "done" => artifact = <<masterAnalysis>>

C13_Witness ==
  /\ Len(FILES) = 1
  /\ pc = "done"
  /\ status[1] = "Succeeded"
  /\ Keys(artifact[1]) = {FILES[1]}

\* ------------------------------------------------------------------ C14
\* C14: a failed artifact write is not caught: the run ends there with a
\* failure exit code, nothing is written, the write is attempted once, no
\* completion is reported, and completion is reported only after a write
\* that succeeded.
C14_SinkFailurePropagates ==
  /\ [](/\ Count("sink") <= 1
        /\ pc = "crashed" =>
             /\ exitCode = 1
             /\ ~reported
             /\ artifact = <<>>
             /\ Count("sink") = 1
        /\ (reported \/ pc = "done" \/ exitCode = 0) =>
             /\ pc = "done"
             /\ artifact = <<masterAnalysis>>)
  /\ [][pc # "crashed"]_vars

C14_Witness ==
  /\ pc = "crashed"
  /\ Len(masterAnalysis) = 2
  /\ exitCode = 1

\* ------------------------------------------------------------------ C15
\* an entry with a props object and a wrappers object
HasPropsAndWrappers(v) == v.t = "object" /\ v.props # "absent" /\ v.wrappers # "absent"

\* C15 (as stated): every entry of the written artifact has a props object
\* and a wrappers object, whatever the completions were.
C15_AsStated ==
  \A d \in 1..Len(artifact) : \A n \in 1..Len(artifact[d]) :
    HasPropsAndWrappers(artifact[d][n].val)

\* C15 (amended): every entry of the written artifact is either the
\* fallback (empty props, empty wrappers) or the value parsed from the
\* target's completion, stored without validation: it has a props object
\* and a wrappers object iff the target fell back or its completion parsed
\* to an object carrying both.
C15_ShapeOnlyIfCompletionHasIt ==
  \A d \in 1..Len(artifact) : \A i \in NonSkipped :
    (\A j \in NonSkipped : FILES[j] = FILES[i] => j <= i) =>
      /\ Has(artifact[d], FILES[i])
      /\ LET v == Get(artifact[d], FILES[i])
         IN IF status[i] = "FailedFallback"
            THEN v = [t |-> "object", props |-> "{}", wrappers |-> "{}"]
            ELSE /\ received[i] \in Completions
                 /\ \E b \in {"{A}", "{B}", "null", "{}"} :
                      /\ \E k \in 1..Len(received[i]) : received[i][k] = b
                      /\ v = JsonParse(<<b>>)
                      /\ HasPropsAndWrappers(v) <=> b \in {"{A}", "{B}"}

C15_Witness ==
  /\ pc = "done"
  /\ Len(artifact[1]) = 2
  /\ \E i, j \in Positions :
       /\ status[i] = "Succeeded" /\ received[i] = <<"null">>
       /\ ~HasPropsAndWrappers(Get(artifact[1], FILES[i]))
       /\ status[j] = "FailedFallback"
       /\ HasPropsAndWrappers(Get(artifact[1], FILES[j]))

\* ------------------------------------------------------------------ C16
\* the tokens of raw at the positions in keep, in order
KeepOnly(raw, keep) ==
  LET ks == SelectSeq([k \in 1..Len(raw) |-> k], LAMBDA k : k \in keep)
  IN [n \in 1..Len(ks) |-> raw[ks[n]]]

\* raw without its fence markers and without the language tag, whatever it
\* is, that follows a fence marker
WithoutFencesAnyTag(raw) ==
  KeepOnly(raw, {k \in 1..Len(raw) :
                   /\ raw[k] # FENCE
                   /\ ~(k > 1 /\ raw[k - 1] = FENCE /\ raw[k] \in {"json", "js"})})

\* raw without its fence markers and without the tag json that follows a
\* fence marker
WithoutFencesJsonTag(raw) ==
  KeepOnly(raw, {k \in 1..Len(raw) :
                   /\ raw[k] # FENCE
                   /\ ~(k > 1 /\ raw[k - 1] = FENCE /\ raw[k] = "json")})

Normalized == status[1] \in {"Succeeded", "FailedFallback"}

\* C16 (as stated): the normalizer succeeds exactly when the completion,
\* without its fence markers and their language tags (json or any other)
\* and trimmed, is valid JSON, and the entry is then the parsed value.
C16_AsStated ==
  Normalized =>
    LET t == Trim(WithoutFencesAnyTag(received[1]))
    IN /\ status[1] = "Succeeded" <=> JsonParses(t)
       /\ JsonParses(t) => Get(masterAnalysis, FILES[1]) = JsonParse(t)

\* C16 (amended): the normalizer removes every fence marker and the tag
\* json after a fence marker, and leaves any other language tag in place;
\* it succeeds exactly when what is left, trimmed, is valid JSON (so JSON in
\* an untagged or json-tagged fence parses and JSON in a fence with another
\* tag does not), storing the parsed value, and the fallback otherwise.
C16_OnlyJsonTagRemoved ==
  Normalized =>
    LET t == Trim(WithoutFencesJsonTag(received[1]))
    IN /\ status[1] = "Succeeded" <=> JsonParses(t)
       /\ Get(masterAnalysis, FILES[1]) =
            IF JsonParses(t) THEN JsonParse(t)
            ELSE [t |-> "object", props |-> "{}", wrappers |-> "{}"]

C16_Witness ==
  /\ received[1] = <<FENCE, "json", "{A}", FENCE>>
  /\ status[1] = "Succeeded"
  /\ Get(masterAnalysis, FILES[1]) = JsonParse(<<"{A}">>)

\* ------------------------------------------------------------------ C17
\* C17: the project context is built once, before anything is done for a
\* target, and no later step changes it; a missing, unreadable or malformed
\* package.json or README.md does not end the run: the loop starts, every
\* prompt carries the context that was built (the placeholder at least when
\* package.json gave nothing), and every position is processed.
C17_ContextBuiltOnce ==
  /\ [](/\ Count("context") <= 1
        /\ (\E k \in 1..Len(log) : log[k].ev # "exit") => log[1].ev = "context"
        /\ pc \notin {"main", "context", "exited"} =>
             /\ Count("context") = 1
             /\ Len(projectContext) >= 1
             /\ pkgKind # "ok" => projectContext[1] = "Unknown React Application"
             /\ projectContext[Len(projectContext)] = "README Summary" =>
                  (readmeKind = "ok" /\ pkgKind # "bad")
        /\ \A i \in Positions :
             /\ status[i] \in {"Invoking", "Normalizing", "Succeeded"} => promptCtx[i] = projectContext
             /\ promptCtx[i] \in {<<>>, projectContext}
        /\ LoopOver => \A i \in Positions : status[i] \in Terminal)
  /\ [][pc # "context" => projectContext' = projectContext]_vars
  /\ [][pc = "context" => (pc' = "loop" /\ exitCode' = -1)]_vars

C17_Witness ==
  /\ pc = "done"
  /\ pkgKind = "bad"
  /\ readmeKind = "ok"
  /\ projectContext = <<"Unknown React Application">>
  /\ Len(FILES) = 2
  /\ \A i \in Positions : status[i] = "Succeeded" /\ promptCtx[i] = projectContext

\* ------------------------------------------------------------------ C18
\* the number of throttle delays logged for position i
SleepsOf(i) == Cardinality({k \in 1..Len(log) : log[k] = Ev("sleep", i)})

CallsOf(i) == Cardinality({k \in 1..Len(log) : log[k] = Ev("call", i)})

\* C19: a position causes at most one external call (none after a failed
\* or malformed one), a call is made only for a path that exists and was
\* read, after the read, and the number of calls never exceeds the number
\* of positions that were not skipped.
C19_AtMostOneCall ==
  /\ \A i \in Positions :
       /\ CallsOf(i) <= 1
       /\ CallsOf(i) = 1 =>
            /\ fsKind[FILES[i]] = "file"
            /\ \E p, q \in 1..Len(log) :
                 p < q /\ log[p] = Ev("read", i) /\ log[q] = Ev("call", i)
       /\ status[i] \in {"Pending", "SkippedMissing", "Reading", "Composing"} => CallsOf(i) = 0
       /\ received[i] # NoResponse => CallsOf(i) = 1
  /\ Count("call") <= Cardinality({i \in Positions : status[i] \notin {"Pending", "SkippedMissing"}})

C19_Witness ==
  /\ pc = "sink"
  /\ Len(FILES) = 3
  /\ fsKind[FILES[1]] = "dir"
  /\ received[2] = ERR
  /\ status[3] = "Succeeded"
  /\ Count("call") = 2

\* ------------------------------------------------------------------ C20
\* C20: a path that exists but cannot be read is not skipped: its position
\* ends FailedFallback with the fallback entry in BatchOutput, without any
\* external call or throttle delay, and the loop goes on to the next
\* position.
C20_UnreadableFallsBack ==
  \A i \in Positions :
    fsKind[FILES[i]] = "dir" =>
      /\ status[i] \in {"Pending", "Reading", "FailedFallback"}
      /\ CallsOf(i) = 0
      /\ SleepsOf(i) = 0
      /\ received[i] = NoResponse
      /\ status[i] = "FailedFallback" =>
           /\ Has(masterAnalysis, FILES[i])
           /\ Get(masterAnalysis, FILES[i]) = [t |-> "object", props |-> "{}", wrappers |-> "{}"]
           /\ idx > i
      /\ LoopOver => \A j \in Positions : status[j] \in Terminal
      /\ pc = "done" => Has(artifact[1], FILES[i])

C20_Witness ==
  /\ pc = "done"
  /\ Len(FILES) = 2
  /\ fsKind[FILES[1]] = "dir"
  /\ status = <<"FailedFallback", "Succeeded">>
  /\ Len(artifact[1]) = 2
====
